---- MODULE Spec2Model ----
(***************************************************************************)
(* Model of scimap's XANES frameset (src/txm/xanes_frameset.py): the HDF5  *)
(* store of frame groups that XanesFrameset forks, switches between and    *)
(* writes to, and the align_frames run on top of it.                       *)
(*                                                                         *)
(* The store is the content of the frameset's top-level HDF group: one     *)
(* entry per child group, each holding one frame group per energy key.  A  *)
(* frame group carries its attributes and at most one dataset member,      *)
(* which is either real data or an h5py.SoftLink to the dataset of the     *)
(* same key in another group.  A soft link is a path: it is resolved when  *)
(* it is read, not when it is made.                                        *)
(***************************************************************************)
EXTENDS Integers, Sequences, FiniteSets, TLC

\* ---------------------------------------------------------------- bounds
NumFrames == 2
MaxCalls == 3
MaxStoreCalls == 4
MaxAligns == 1
MaxPasses == 2
MaxShift == 1
Rows == 5
Cols == 5
NumEnergies == 3
MapRows == 2
MapCols == 2
MaxVal == 1
MaxCacheCalls == 4
MaxMapCalls == 3

\* ------------------------------------------------------------- constants
FramesetGroup == "fs"
RootName == "imported"
AbsorbanceName == "absorbance_frames"
ForkNames == {"aligned", "normalized"}
AlignNames == {"aligned"}
GroupNames == {RootName, AbsorbanceName} \cup ForkNames
Keys == 1..NumFrames

\* os.path.join(self.frameset_group, name) and os.path.basename(path)
Path(name) == <<FramesetGroup, name>>
Basename(p) == IF Len(p) = 0 THEN "" ELSE p[Len(p)]
NoPath == <<>>

\* ------------------------------------------------------ datasets, frames
\* Image data is symbolic: the imported frame it descends from, the
\* operations applied to it in order, and its shape (rows, columns).
Op(name, a, b, c, d) == [op |-> name, p |-> <<a, b, c, d>>]
Image(k, ops, shp) == [src |-> k, ops |-> ops, shape |-> shp]
NoImage == Image(0, <<>>, <<0, 0>>)

DsNone == [kind |-> "none", tg |-> "", val |-> NoImage]
DsLink(g) == [kind |-> "link", tg |-> g, val |-> NoImage]
DsData(v) == [kind |-> "data", tg |-> "", val |-> v]

Position(x, y, z) == <<x, y, z>>
NoFrame == [exists |-> FALSE, cow |-> FALSE, ds |-> DsNone,
            pos |-> Position(0, 0, 0), px |-> 0]
NoFrames == [k \in Keys |-> NoFrame]
NoGroup == [exists |-> FALSE, parent |-> NoPath, frames |-> NoFrames]

ImportedFrame(k) == [exists |-> TRUE, cow |-> FALSE,
                     ds |-> DsData(Image(k, <<>>, <<Rows, Cols>>)),
                     pos |-> Position(k, k + 1, k + 2), px |-> k]

VARIABLES store, active_group, latest_group, background_groupname,
          pc, new_name, passes, crop, current_pass, shifts, all_crops,
          original_group, limits, pending, ret, ncalls, naligns,
          q_pc, q_pool, q_todo, q_tasks, q_working, q_results, q_running,
          q_handed, q_applied, q_failed,
          cache, returned, energies, imagestack, fit_fails, calc

storeVars == <<store, active_group, latest_group, background_groupname>>
alignVars == <<pc, new_name, passes, crop, current_pass, shifts, all_crops,
               original_group, limits, pending>>
\* The parallel queue of process_with_smp: where the call stands, the size
\* of the worker pool, the frames still to submit, the payloads waiting
\* for a worker, those a worker holds, the results waiting for the
\* consumer, the result callbacks running, and how often each frame was
\* handed to a worker and had its result applied.
queueVars == <<q_pc, q_pool, q_todo, q_tasks, q_working, q_results, q_running,
               q_handed, q_applied, q_failed>>
\* The functools.lru_cache of the frameset's cached methods and the value
\* the last call of one of them returned; the inputs of the calculations
\* (the energy of each frame, a stack of images over the energies, the
\* spectra whose fit does not converge) and the calculation's result.
calcVars == <<returned, energies, imagestack, fit_fails, calc>>
vars == <<storeVars, alignVars, ret, ncalls, naligns, queueVars, cache, calcVars>>

\* ------------------------------------------------------- reading frames
\* h5py resolves a soft link each time the dataset is opened; a link whose
\* target is gone cannot be opened (KeyError).
RECURSIVE Owner(_, _, _, _)
Owner(st, g, k, fuel) ==
    IF fuel = 0 \/ g \notin GroupNames THEN ""
    ELSE IF ~st[g].exists \/ ~st[g].frames[k].exists THEN ""
    ELSE LET d == st[g].frames[k].ds IN
         IF d.kind = "data" THEN g
         ELSE IF d.kind = "link" THEN Owner(st, d.tg, k, fuel - 1)
         ELSE ""

DatasetOwner(st, g, k) == Owner(st, g, k, Cardinality(GroupNames) + 1)
Readable(st, g, k) == DatasetOwner(st, g, k) # ""
ReadImage(st, g, k) ==
    IF Readable(st, g, k) THEN st[DatasetOwner(st, g, k)].frames[k].ds.val
    ELSE NoImage

FrameKeys(st, g) == {k \in Keys : st[g].frames[k].exists}
AllReadable(st, g) == \A k \in FrameKeys(st, g) : Readable(st, g, k)

SetMin(S) == CHOOSE x \in S : \A y \in S : x <= y
\* The i-th (0-based) frame key in iteration order.
KeyAt(S, i) == CHOOSE k \in S : Cardinality({j \in S : j < k}) = i

\* ------------------------------------------------------- writing frames
\* Assigning frame.image_data stores the new array as the frame group's
\* own dataset: where the member was a soft link left by fork_group, the
\* link is replaced and the copy-on-write mark cleared.
SetImageData(st, g, k, v) ==
    [st EXCEPT ![g].frames[k].ds = DsData(v), ![g].frames[k].cow = FALSE]

\* frame.image_data.write_direct(new_data): h5py writes into the dataset
\* the name resolves to, which for a soft link is the link's target.
WriteDirect(st, g, k, v) ==
    LET o == DatasetOwner(st, g, k) IN
    IF o = "" THEN st ELSE [st EXCEPT ![o].frames[k].ds.val = v]

\* frame.crop(bottom, left, top, right): keep rows bottom..top and columns
\* left..right of the image, as an array slice does.
Clip(x, hi) == IF x < 0 THEN 0 ELSE IF x > hi THEN hi ELSE x
Extent(lo, hi, n) ==
    IF Clip(hi, n) > Clip(lo, n) THEN Clip(hi, n) - Clip(lo, n) ELSE 0
CropImage(v, box) ==
    Image(v.src,
          Append(v.ops, Op("crop", box.bottom, box.left, box.top, box.right)),
          <<Extent(box.bottom, box.top, v.shape[1]),
            Extent(box.left, box.right, v.shape[2])>>)
CropFrame(st, g, k, box) ==
    SetImageData(st, g, k, CropImage(ReadImage(st, g, k), box))

\* transform.warp / _transform: one interpolation of the image.
Apply(v, o) == Image(v.src, Append(v.ops, o), v.shape)

\* ----------------------------------------------------------- fork_group
\* Keys of the old group whose dataset member is a link that cannot be
\* opened: old_group[E_key][src_ds] raises KeyError there.
BrokenLinks(st, old) ==
    {k \in FrameKeys(st, old) :
        st[old].frames[k].ds.kind = "link" /\ ~Readable(st, old, k)}

\* ForkedGroup with the parent attribute left as copy() brought it over.
ForkedGroupKeepsParent(st, old) ==
    [exists |-> TRUE,
     parent |-> st[old].parent,
     frames |-> [k \in Keys |->
         LET f == st[old].frames[k] IN
         IF ~f.exists THEN NoFrame
         ELSE [f EXCEPT !.cow = TRUE,
                        !.ds = IF f.ds.kind = "none" THEN DsNone
                               ELSE DsLink(old)]]]

\* ForkedGroup with the link loop stopping one key short.
ForkedGroupSkipsLast(st, old) ==
    [exists |-> TRUE,
     parent |-> Path(old),
     frames |-> [k \in Keys |->
         LET f == st[old].frames[k] IN
         IF ~f.exists \/ k = NumFrames THEN NoFrame
         ELSE [f EXCEPT !.cow = TRUE,
                        !.ds = IF f.ds.kind = "none" THEN DsNone
                               ELSE DsLink(old)]]]

\* The group made by copy(shallow=True) followed by the link loop, which
\* runs over the keys in order and stops at the first broken link.
ForkedGroup(st, old) ==
    LET bad == BrokenLinks(st, old)
        kb == IF bad = {} THEN NumFrames + 1 ELSE SetMin(bad)
    IN [exists |-> TRUE,
        parent |-> Path(old),
        frames |-> [k \in Keys |->
            LET f == st[old].frames[k] IN
            IF ~f.exists THEN NoFrame
            ELSE IF k < kb
                 THEN [f EXCEPT !.cow = TRUE,
                                !.ds = IF f.ds.kind = "none" THEN DsNone
                                       ELSE DsLink(old)]
            ELSE IF k = kb THEN [f EXCEPT !.cow = TRUE, !.ds = DsNone]
            ELSE [f EXCEPT !.ds = DsNone]]]

\* fork_group comparing the old parent with latest_group.
ForkGroupResultChecksLatest(st, act, lat, name) ==
    IF st[name].exists /\ st[name].parent # lat
    THEN [store |-> st, active |-> act, latest |-> lat, out |-> "GroupKeyError"]
    ELSE LET old == Basename(act)
             st1 == [st EXCEPT ![name] = NoGroup]
             st2 == [st1 EXCEPT ![name] = ForkedGroup(st1, old)]
         IN IF BrokenLinks(st1, old) # {}
            THEN [store |-> st2, active |-> act, latest |-> lat, out |-> "KeyError"]
            ELSE [store |-> st2, active |-> Path(name), latest |-> Path(name),
                  out |-> "ok"]

\* fork_group replacing an existing group whatever its parent.
ForkGroupResultNoCheck(st, act, lat, name) ==
    LET old == Basename(act)
        st1 == [st EXCEPT ![name] = NoGroup]
        st2 == [st1 EXCEPT ![name] = ForkedGroup(st1, old)]
    IN IF BrokenLinks(st1, old) # {}
       THEN [store |-> st2, active |-> act, latest |-> lat, out |-> "KeyError"]
       ELSE [store |-> st2, active |-> Path(name), latest |-> Path(name),
             out |-> "ok"]

\* fork_group without the switch to the new group at its end.
ForkGroupResultNoSwitch(st, act, lat, name) ==
    IF st[name].exists /\ st[name].parent # act
    THEN [store |-> st, active |-> act, latest |-> lat, out |-> "GroupKeyError"]
    ELSE LET old == Basename(act)
             st1 == [st EXCEPT ![name] = NoGroup]
             st2 == [st1 EXCEPT ![name] = ForkedGroup(st1, old)]
         IN IF BrokenLinks(st1, old) # {}
            THEN [store |-> st2, active |-> act, latest |-> lat, out |-> "KeyError"]
            ELSE [store |-> st2, active |-> act, latest |-> Path(name),
                  out |-> "ok"]

\* fork_group(name) as a function of the frameset's state: the new store,
\* active group and latest_group, and how the call ended.
ForkGroupResult(st, act, lat, name) ==
    IF st[name].exists /\ st[name].parent # act
    THEN [store |-> st, active |-> act, latest |-> lat, out |-> "GroupKeyError"]
    ELSE LET old == Basename(act)
             st1 == [st EXCEPT ![name] = NoGroup]
             st2 == [st1 EXCEPT ![name] = ForkedGroup(st1, old)]
         IN IF BrokenLinks(st1, old) # {}
            THEN [store |-> st2, active |-> act, latest |-> lat, out |-> "KeyError"]
            ELSE [store |-> st2, active |-> Path(name), latest |-> Path(name),
                  out |-> "ok"]

\* --------------------------------------------------------------- state
Ret(op, name, out) == [op |-> op, name |-> name, out |-> out]
NoLimits == [left |-> 0, right |-> 0, top |-> 0, bottom |-> 0]
NoShifts == [k \in Keys |-> <<>>]
BackgroundPath == Path("background_frames")

\* The methods wrapped in functools.lru_cache and the arguments they are
\* called with here: a representation, or the edge of the frameset.
CachedMethods == {"xanes_spectrum", "image_normalizer", "edge_jump_filter"}
CachedArgs(m) == IF m = "edge_jump_filter" THEN {"edge"}
                 ELSE {"modulus", "phase"}
CachedCalls == {c \in CachedMethods \X {"edge", "modulus", "phase"} :
                   c[2] \in CachedArgs(c[1])}

\* What a cached method computes: a value over the frames of one group,
\* named here by the group and the data it was computed from.
Value(st, g) == [group |-> Path(g),
                 data |-> [k \in Keys |-> IF st[g].frames[k].exists
                                          THEN ReadImage(st, g, k)
                                          ELSE NoImage]]
NoValue == [group |-> NoPath, data |-> [k \in Keys |-> NoImage]]
NoCache == [c \in CachedCalls |-> NoValue]

\* A clear_caches that clears nothing.
ClearCachesNothing(c) == c

\* clear_caches(), and the caches after a fork_group that ended as out:
\* the switch_group at its end is what clears them.
ClearCaches(c) == NoCache
ForkCaches(c, out) == IF out = "ok" THEN ClearCaches(c) ELSE c

\* Edge of the frameset used by the calculations: its pre-edge and
\* post-edge ranges.
PreEdge == <<8250, 8290>>
PostEdge == <<8290, 8295>>

\* The state of a frameset and of its queue after construction.
InitFrameset ==
    /\ store = [g \in GroupNames |->
                  IF g = RootName
                  THEN [exists |-> TRUE, parent |-> NoPath,
                        frames |-> [k \in Keys |-> ImportedFrame(k)]]
                  ELSE NoGroup]
    /\ active_group = Path(RootName)
    /\ latest_group = Path(RootName)
    /\ background_groupname = NoPath
    /\ pc = "idle"
    /\ new_name = ""
    /\ passes = 0
    /\ crop = FALSE
    /\ current_pass = 0
    /\ shifts = NoShifts
    /\ all_crops = <<>>
    /\ original_group = NoPath
    /\ limits = NoLimits
    /\ pending = {}
    /\ ret = Ret("init", "", "ok")
    /\ ncalls = 0
    /\ naligns = 0
    /\ q_pc = "idle"
    /\ q_pool = 1
    /\ q_todo = <<>>
    /\ q_tasks = <<>>
    /\ q_working = <<>>
    /\ q_results = <<>>
    /\ q_running = <<>>
    /\ q_handed = [k \in Keys |-> 0]
    /\ q_applied = [k \in Keys |-> 0]
    /\ q_failed = FALSE
    /\ cache = NoCache
    /\ returned = NoValue

\* The inputs of the calculations when none is under study: frames 20 eV
\* apart from the start of the pre-edge, an image stack of zeros, every
\* fit converging, nothing calculated.
FrameEnergies == [k \in Keys |-> PreEdge[1] + 20 * (k - 1)]
Pixels == (1..MapRows) \X (1..MapCols)
Energies == 1..NumEnergies
NoCalc == [op |-> "none"]
InitCalc ==
    /\ energies = FrameEnergies
    /\ imagestack = [e \in Energies |-> [px \in Pixels |-> 0]]
    /\ fit_fails = {}
    /\ calc = NoCalc

Init == InitFrameset /\ InitCalc

\* A call from the user of the frameset: only between operations.
Call ==
    /\ pc = "idle"
    /\ ncalls' = ncalls + 1

\* ------------------------------------------------- switch_group(name)
SwitchGroup(name) ==
    /\ Call
    /\ IF name \in GroupNames /\ store[name].exists
       THEN /\ active_group' = Path(name)
            /\ cache' = ClearCaches(cache)
            /\ ret' = Ret("switch_group", name, "ok")
       ELSE /\ active_group' = active_group
            /\ cache' = cache
            /\ ret' = Ret("switch_group", name, "GroupKeyError")
    /\ UNCHANGED <<store, latest_group, background_groupname, alignVars, naligns>>

\* --------------------------------------------------- fork_group(name)
ForkGroup(name) ==
    /\ Call
    /\ LET r == ForkGroupResult(store, active_group, latest_group, name) IN
       /\ store' = r.store
       /\ active_group' = r.active
       /\ latest_group' = r.latest
       /\ cache' = ForkCaches(cache, r.out)
       /\ ret' = Ret("fork_group", name, r.out)
    /\ UNCHANGED <<background_groupname, alignVars, naligns>>

\* -------------------------------------------------- drop_frame(index)
DropFrame(index) ==
    /\ Call
    /\ LET g == Basename(active_group)
           ks == FrameKeys(store, g)
       IN IF index < Cardinality(ks)
          THEN /\ store' = [store EXCEPT ![g].frames[KeyAt(ks, index)] = NoFrame]
               /\ ret' = Ret("drop_frame", "", "ok")
          ELSE /\ store' = store
               /\ ret' = Ret("drop_frame", "", "IndexError")
    /\ UNCHANGED <<cache, active_group, latest_group, background_groupname, alignVars,
                   naligns>>

\* ------------------------------------------ apply_references(bg_groupname)
\* The loop over the frames of the new group, in key order, up to the
\* first frame whose image data cannot be opened.
RECURSIVE WriteReferences(_, _, _)
WriteReferences(st, g, k) ==
    IF k > NumFrames THEN st
    ELSE IF ~st[g].frames[k].exists THEN WriteReferences(st, g, k + 1)
    ELSE IF ~Readable(st, g, k) THEN st
    ELSE WriteReferences(
             WriteDirect(st, g, k, Apply(ReadImage(st, g, k), Op("ref", 0, 0, 0, 0))),
             g, k + 1)

ApplyReferences ==
    /\ Call
    /\ background_groupname' = BackgroundPath
    /\ LET r == ForkGroupResult(store, active_group, latest_group, AbsorbanceName) IN
       /\ active_group' = r.active
       /\ latest_group' = r.latest
       /\ cache' = ForkCaches(cache, r.out)
       /\ IF r.out # "ok"
          THEN /\ store' = r.store
               /\ ret' = Ret("apply_references", AbsorbanceName, r.out)
          ELSE /\ store' = WriteReferences(r.store, AbsorbanceName, 1)
               /\ ret' = Ret("apply_references", AbsorbanceName,
                             IF AllReadable(r.store, AbsorbanceName)
                             THEN "ok" ELSE "KeyError")
    /\ UNCHANGED <<alignVars, naligns>>

\* ------------------------------------------------ correct_magnification
\* process_with_smp over the active group with the magnification worker:
\* every frame's result is saved with frame.image_data = ..., and its
\* pixel size set to that of frame 0.  A frame that cannot be read stops
\* the loop that fills the queue; results of earlier frames may or may
\* not have been saved by then.
RECURSIVE SaveAll(_, _, _, _, _)
SaveAll(st, g, ks, o, px) ==
    IF ks = {} THEN st
    ELSE LET k == SetMin(ks)
             st1 == SetImageData(st, g, k, Apply(ReadImage(st, g, k), o))
         IN SaveAll([st1 EXCEPT ![g].frames[k].px = px], g, ks \ {k}, o, px)

CorrectMagnification ==
    /\ Call
    /\ LET g == Basename(active_group)
           ks == FrameKeys(store, g)
           bad == {k \in ks : ~Readable(store, g, k)}
       IN IF ks = {}
          THEN /\ store' = store
               /\ ret' = Ret("correct_magnification", "", "IndexError")
          ELSE LET px == store[g].frames[SetMin(ks)].px IN
               IF bad = {}
               THEN /\ store' = SaveAll(store, g, ks, Op("mag", 0, 0, 0, 0), px)
                    /\ ret' = Ret("correct_magnification", "", "ok")
               ELSE /\ \E S \in SUBSET {k \in ks : k < SetMin(bad)} :
                          store' = SaveAll(store, g, S, Op("mag", 0, 0, 0, 0), px)
                    /\ ret' = Ret("correct_magnification", "", "KeyError")
    /\ UNCHANGED <<cache, active_group, latest_group, background_groupname, alignVars,
                   naligns>>

\* ---------------------------------------------------------- align_frames
ValidFilters == {"median", "none"}
ValidMethods == {"cross_correlation", "template_match"}
Blurs == ValidFilters \cup {"gaussian"}
Methods == ValidMethods \cup {"phase"}
MethodLists == {<<>>, <<"cross_correlation">>, <<"phase">>,
                <<"template_match", "cross_correlation">>,
                <<"cross_correlation", "phase">>}
\* Shifts a registration may return, in half pixels: all of them within
\* MaxShift, and the few the store-level specification explores.
ShiftVals == (0 - MaxShift)..MaxShift
SomeShifts == {<<0, 0>>, <<MaxShift, 0 - MaxShift>>}

\* `methods` as the code completes it when it is left empty.
PassMethods(method, methods, p) ==
    IF methods = <<>> THEN [i \in 1..p |-> method] ELSE methods

\* The parameter checks without the comparison of len(methods) with passes.
ParameterErrorNoLength(blur, p, method, methods) ==
    LET ms == PassMethods(method, methods, p) IN
    IF blur \notin ValidFilters THEN "AttributeError"
    ELSE IF \E i \in 1..Len(ms) : ms[i] \notin ValidMethods THEN "ValueError"
    ELSE "ok"

\* The parameter checks at the top of align_frames, in their order.
ParameterError(blur, p, method, methods) ==
    LET ms == PassMethods(method, methods, p) IN
    IF blur \notin ValidFilters THEN "AttributeError"
    ELSE IF \E i \in 1..Len(ms) : ms[i] \notin ValidMethods THEN "ValueError"
    ELSE IF Len(ms) # p THEN "ValueError"
    ELSE "ok"

\* mean_image() / median_image() over the active group and the shape taken
\* from it: every frame is read, and the images must stack.
Shapes(st, g) == {ReadImage(st, g, k).shape : k \in FrameKeys(st, g)}
ReferenceError(st, g) ==
    IF ~AllReadable(st, g) THEN "KeyError"
    ELSE IF FrameKeys(st, g) = {} THEN "TypeError"
    ELSE IF Cardinality(Shapes(st, g)) # 1 THEN "ValueError"
    ELSE "ok"
OriginalShape(st, g) == CHOOSE shp \in Shapes(st, g) : TRUE

Abs(x) == IF x < 0 THEN 0 - x ELSE x
\* math.floor(abs(s)) in place of math.ceil(abs(s)).
FloorPx(h) == Abs(h) \div 2

\* Shifts are counted in half pixels: math.ceil(abs(s)) of a shift s.
CeilPx(h) == (Abs(h) + 1) \div 2

\* Limits that follow the latest shift whatever came before it.
UpdateLimitsLatest(lim, x, y) ==
    [bottom |-> IF y > 0 THEN y ELSE 0,
     top    |-> IF y < 0 THEN y ELSE 0,
     right  |-> IF x > 0 THEN x ELSE 0,
     left   |-> IF x < 0 THEN x ELSE 0]

\* process_result: the running crop limits after one more shift.
UpdateLimits(lim, x, y) ==
    [bottom |-> IF y > lim.bottom THEN y ELSE lim.bottom,
     top    |-> IF ~(y > lim.bottom) /\ y < lim.top THEN y ELSE lim.top,
     right  |-> IF x > lim.right THEN x ELSE lim.right,
     left   |-> IF ~(x > lim.right) /\ x < lim.left THEN x ELSE lim.left]

\* A history that keeps only the latest shift of a frame.
RecordShiftReplaces(ss, k, shift) == [ss EXCEPT ![k] = <<shift>>]

\* process_result: the shift appended to the history of the frame's key.
RecordShift(ss, k, shift) == [ss EXCEPT ![k] = Append(@, shift)]

Crop(top, bottom, left, right) ==
    [top |-> top, bottom |-> bottom, left |-> left, right |-> right]

\* The crop box of a pass measured against the shape of the imported image.
PassCropFullShape(lim, shp) ==
    Crop(Rows - CeilPx(lim.bottom), CeilPx(lim.top),
         CeilPx(lim.left), Cols - CeilPx(lim.right))

\* The crop box of one pass, from its limits and the reference's shape.
PassCrop(lim, shp) ==
    Crop(shp[1] - CeilPx(lim.bottom), CeilPx(lim.top),
         CeilPx(lim.left), shp[2] - CeilPx(lim.right))

RECURSIVE SumBottom(_), SumLeft(_)
SumBottom(cs) == IF cs = <<>> THEN 0 ELSE Head(cs).bottom + SumBottom(Tail(cs))
SumLeft(cs) == IF cs = <<>> THEN 0 ELSE Head(cs).left + SumLeft(Tail(cs))

\* A final crop that takes the box of the last pass as it is.
FinalCropLastOnly(cs) ==
    LET last_crop == cs[Len(cs)]
    IN Crop(last_crop.top, last_crop.bottom, last_crop.left, last_crop.right)

\* The crop applied after the final translation.
FinalCrop(cs) ==
    LET bottom == SumBottom(cs)
        left == SumLeft(cs)
        last_crop == cs[Len(cs)]
    IN Crop(bottom + last_crop.top - last_crop.bottom, bottom,
            left, left + last_crop.right - last_crop.left)

\* The crop loop leaving out the first frame of the group.
RECURSIVE CropAllSkipsFirst(_, _, _, _)
CropAllSkipsFirst(st, g, ks, box) ==
    IF ks = {} THEN st
    ELSE LET k == SetMin(ks) IN
         CropAllSkipsFirst(IF k = SetMin(FrameKeys(st, g)) THEN st
                           ELSE CropFrame(st, g, k, box),
                           g, ks \ {k}, box)

RECURSIVE CropAll(_, _, _, _)
CropAll(st, g, ks, box) ==
    IF ks = {} THEN st
    ELSE LET k == SetMin(ks) IN
         CropAll(CropFrame(st, g, k, box), g, ks \ {k}, box)

\* frame.sample_position = position(0, 0, frame.sample_position.z)
ResetPositions(st, g) ==
    [st EXCEPT ![g].frames =
        [k \in Keys |->
            LET f == st[g].frames[k] IN
            IF f.exists THEN [f EXCEPT !.pos = Position(0, 0, f.pos[3])]
            ELSE f]]

\* The net translation taken from the last pass alone.
SumXLast(ss) == IF ss = <<>> THEN 0 ELSE ss[Len(ss)][1]

RECURSIVE SumX(_), SumY(_)
SumX(ss) == IF ss = <<>> THEN 0 ELSE Head(ss)[1] + SumX(Tail(ss))
SumY(ss) == IF ss = <<>> THEN 0 ELSE Head(ss)[2] + SumY(Tail(ss))

\* The call up to the start of the first pass.
AlignFrames(name, blur, p, method, methods, c) ==
    /\ Call
    /\ naligns' = naligns + 1
    /\ UNCHANGED background_groupname
    /\ LET perr == ParameterError(blur, p, method, methods) IN
       IF perr # "ok"
       THEN /\ ret' = Ret("align_frames", name, perr)
            /\ UNCHANGED <<store, active_group, latest_group, alignVars, cache>>
       ELSE LET r == ForkGroupResult(store, active_group, latest_group, name)
                rerr == ReferenceError(r.store, Basename(r.active))
            IN /\ store' = r.store
               /\ active_group' = r.active
               /\ latest_group' = r.latest
               /\ cache' = ForkCaches(cache, r.out)
               /\ IF r.out # "ok"
                  THEN /\ ret' = Ret("align_frames", name, r.out)
                       /\ UNCHANGED alignVars
                  ELSE /\ new_name' = name
                       /\ passes' = p
                       /\ crop' = c
                       /\ current_pass' = 0
                       /\ shifts' = NoShifts
                       /\ all_crops' = <<>>
                       /\ original_group' = active_group
                       /\ limits' = NoLimits
                       /\ IF p = 0
                          THEN /\ pc' = "idle"
                               /\ pending' = {}
                               /\ ret' = Ret("align_frames", name, "ok")
                          ELSE IF rerr # "ok"
                          THEN /\ pc' = "idle"
                               /\ pending' = {}
                               /\ ret' = Ret("align_frames", name, rerr)
                          ELSE /\ pc' = "pass"
                               /\ pending' = FrameKeys(r.store, Basename(r.active))
                               /\ ret' = Ret("align_frames", name, "running")

\* One frame's task of a pass: the worker registers the frame against the
\* reference (any shift within half the image), translates it, and the
\* result callback records the shift and saves the data.
PassResult(k, x, y) ==
    /\ pc = "pass"
    /\ k \in pending
    /\ LET g == Basename(active_group)
           img == ReadImage(store, g, k)
       IN /\ Abs(y) <= img.shape[1]
          /\ Abs(x) <= img.shape[2]
          /\ store' = SetImageData(store, g, k,
                                   Apply(img, Op("warp", x, y, 0, 0)))
    /\ limits' = UpdateLimits(limits, x, y)
    /\ shifts' = RecordShift(shifts, k, <<x, y>>)
    /\ pending' = pending \ {k}
    /\ UNCHANGED <<cache, active_group, latest_group, background_groupname, pc,
                   new_name, passes, crop, current_pass, all_crops,
                   original_group, ret, ncalls, naligns>>

\* A task of the running pass or of the final translation raises: the
\* call ends there.
TaskFails(k) ==
    /\ pc \in {"pass", "final"}
    /\ k \in pending
    /\ pc' = "idle"
    /\ pending' = {}
    /\ ret' = Ret("align_frames", new_name, "TaskFailure")
    /\ UNCHANGED <<cache, storeVars, new_name, passes, crop, current_pass, shifts,
                   all_crops, original_group, limits, ncalls, naligns>>

\* After queue.join() of a pass: positions, crop, and what comes next.
EndPass ==
    /\ pc = "pass"
    /\ pending = {}
    /\ LET g == Basename(active_group)
           ks == FrameKeys(store, g)
           st1 == ResetPositions(store, g)
           box == PassCrop(limits, OriginalShape(store, g))
           st2 == IF crop THEN CropAll(st1, g, ks, box) ELSE st1
       IN /\ all_crops' = IF crop THEN Append(all_crops, box) ELSE all_crops
          /\ current_pass' = current_pass + 1
          /\ IF current_pass + 1 < passes
             THEN /\ store' = st2
                  /\ pc' = "pass"
                  /\ pending' = ks
                  /\ limits' = NoLimits
                  /\ UNCHANGED <<active_group, latest_group, ret, cache>>
             ELSE IF passes > 1
             THEN LET r == ForkGroupResult(st2, Path(Basename(original_group)),
                                           latest_group, new_name)
                  IN /\ store' = r.store
                     /\ active_group' = r.active
                     /\ latest_group' = r.latest
                     /\ cache' = ClearCaches(cache)
                     /\ limits' = limits
                     /\ IF r.out = "ok"
                        THEN /\ pc' = "final"
                             /\ pending' = FrameKeys(r.store, Basename(r.active))
                             /\ ret' = ret
                        ELSE /\ pc' = "idle"
                             /\ pending' = {}
                             /\ ret' = Ret("align_frames", new_name, r.out)
             ELSE /\ store' = st2
                  /\ pc' = "idle"
                  /\ pending' = {}
                  /\ limits' = limits
                  /\ ret' = Ret("align_frames", new_name, "ok")
                  /\ UNCHANGED <<active_group, latest_group, cache>>
    /\ UNCHANGED <<background_groupname, new_name, passes, crop, shifts,
                   original_group, ncalls, naligns>>

\* One frame's task of the final translation: the frame of the fresh fork
\* moved by the sum of its shifts.
FinalResult(k) ==
    /\ pc = "final"
    /\ k \in pending
    /\ LET g == Basename(active_group) IN
       store' = SetImageData(store, g, k,
                    Apply(ReadImage(store, g, k),
                          Op("warp", SumX(shifts[k]), SumY(shifts[k]), 0, 0)))
    /\ pending' = pending \ {k}
    /\ UNCHANGED <<cache, active_group, latest_group, background_groupname, pc,
                   new_name, passes, crop, current_pass, shifts, all_crops,
                   original_group, limits, ret, ncalls, naligns>>

\* After queue.join() of the final translation: the combined crop.
EndFinal ==
    /\ pc = "final"
    /\ pending = {}
    /\ LET g == Basename(active_group) IN
       store' = IF crop
                THEN CropAll(store, g, FrameKeys(store, g), FinalCrop(all_crops))
                ELSE store
    /\ pc' = "idle"
    /\ ret' = Ret("align_frames", new_name, "ok")
    /\ UNCHANGED <<cache, active_group, latest_group, background_groupname,
                   new_name, passes, crop, current_pass, shifts, all_crops,
                   original_group, limits, pending, ncalls, naligns>>

Next ==
    \/ ncalls < MaxCalls /\ \E name \in GroupNames \cup {"missing"} : SwitchGroup(name) /\ UNCHANGED <<queueVars, calcVars>>
    \/ ncalls < MaxCalls /\ \E name \in ForkNames : ForkGroup(name) /\ UNCHANGED <<queueVars, calcVars>>
    \/ ncalls < MaxCalls /\ \E index \in 0..NumFrames : DropFrame(index) /\ UNCHANGED <<queueVars, calcVars>>
    \/ ncalls < MaxCalls /\ ApplyReferences /\ UNCHANGED <<queueVars, calcVars>>
    \/ ncalls < MaxCalls /\ CorrectMagnification /\ UNCHANGED <<queueVars, calcVars>>
    \/ ncalls < MaxCalls /\ naligns < MaxAligns /\
           \E name \in AlignNames, blur \in Blurs, p \in 0..MaxPasses,
              method \in Methods, methods \in MethodLists, c \in BOOLEAN :
              AlignFrames(name, blur, p, method, methods, c) /\ UNCHANGED <<queueVars, calcVars>>
    \/ \E k \in Keys, s \in SomeShifts : PassResult(k, s[1], s[2]) /\ UNCHANGED <<queueVars, calcVars>>
    \/ \E k \in Keys : TaskFails(k) /\ UNCHANGED <<queueVars, calcVars>>
    \/ EndPass /\ UNCHANGED <<queueVars, calcVars>>
    \/ \E k \in Keys : FinalResult(k) /\ UNCHANGED <<queueVars, calcVars>>
    \/ EndFinal /\ UNCHANGED <<queueVars, calcVars>>

Spec == Init /\ [][Next]_vars

\* The store under fork, switch, drop and the in-place writers alone, over
\* longer sequences of calls.
NextStore ==
    \/ ncalls < MaxStoreCalls /\
           \E name \in GroupNames \cup {"missing"} : SwitchGroup(name) /\ UNCHANGED <<queueVars, calcVars>>
    \/ ncalls < MaxStoreCalls /\ \E name \in ForkNames : ForkGroup(name) /\ UNCHANGED <<queueVars, calcVars>>
    \/ ncalls < MaxStoreCalls /\ \E index \in 0..NumFrames : DropFrame(index) /\ UNCHANGED <<queueVars, calcVars>>
    \/ ncalls < MaxStoreCalls /\ ApplyReferences /\ UNCHANGED <<queueVars, calcVars>>
    \/ ncalls < MaxStoreCalls /\ CorrectMagnification /\ UNCHANGED <<queueVars, calcVars>>

SpecStore == Init /\ [][NextStore]_vars

\* One cropping run of align_frames on the imported group, with every
\* shift within MaxShift for every frame in every pass.
NextCrop ==
    \/ ncalls < 1 /\
           \E p \in 1..MaxPasses :
              AlignFrames("aligned", "none", p, "cross_correlation", <<>>, TRUE) /\ UNCHANGED <<queueVars, calcVars>>
    \/ \E k \in Keys, x \in ShiftVals, y \in ShiftVals : PassResult(k, x, y) /\ UNCHANGED <<queueVars, calcVars>>
    \/ EndPass /\ UNCHANGED <<queueVars, calcVars>>
    \/ \E k \in Keys : FinalResult(k) /\ UNCHANGED <<queueVars, calcVars>>
    \/ EndFinal /\ UNCHANGED <<queueVars, calcVars>>

SpecCrop == Init /\ [][NextCrop]_vars

\* One cropping run in which the registration may return, next to small
\* shifts, shifts of half the image in either direction (shifts count in
\* half pixels, so half of Cols pixels is Cols).
HalfShiftVals == {0 - Cols, 0, 1, Cols}
NextHalf ==
    \/ ncalls < 1 /\
           \E p \in 1..MaxPasses :
              AlignFrames("aligned", "none", p, "cross_correlation", <<>>, TRUE) /\ UNCHANGED <<queueVars, calcVars>>
    \/ \E k \in Keys, x \in HalfShiftVals, y \in HalfShiftVals : PassResult(k, x, y) /\ UNCHANGED <<queueVars, calcVars>>
    \/ EndPass /\ UNCHANGED <<queueVars, calcVars>>
    \/ \E k \in Keys : FinalResult(k) /\ UNCHANGED <<queueVars, calcVars>>
    \/ EndFinal /\ UNCHANGED <<queueVars, calcVars>>

SpecHalf == Init /\ [][NextHalf]_vars

\* align_frames called again on the same frameset once a run has ended,
\* by a task failure or normally.
NextRetry ==
    \/ naligns < MaxAligns + 1 /\
           \E blur \in ValidFilters, p \in 1..MaxPasses,
              method \in ValidMethods, c \in BOOLEAN :
              AlignFrames("aligned", blur, p, method, <<>>, c) /\ UNCHANGED <<queueVars, calcVars>>
    \/ \E k \in Keys, s \in SomeShifts : PassResult(k, s[1], s[2]) /\ UNCHANGED <<queueVars, calcVars>>
    \/ \E k \in Keys : TaskFails(k) /\ UNCHANGED <<queueVars, calcVars>>
    \/ EndPass /\ UNCHANGED <<queueVars, calcVars>>
    \/ \E k \in Keys : FinalResult(k) /\ UNCHANGED <<queueVars, calcVars>>
    \/ EndFinal /\ UNCHANGED <<queueVars, calcVars>>

SpecRetry == Init /\ [][NextRetry]_vars

\* ------------------------------------------------------- process_with_smp
\* Worker pools the queue may be built with.
PoolSizes == {1, 2, 8}

RECURSIVE KeysInOrder(_)
KeysInOrder(S) ==
    IF S = {} THEN <<>> ELSE <<SetMin(S)>> \o KeysInOrder(S \ {SetMin(S)})

\* The loop that fills the queue, with its first frame submitted twice.
PayloadsRepeatFirst(st, g) ==
    LET ks == KeysInOrder(FrameKeys(st, g)) IN
    IF ks = <<>> THEN ks ELSE <<Head(ks)>> \o ks

\* `for frame in frameset: queue.put(payload)`: the frames submitted, in
\* the order of iteration.
Payloads(st, g) == KeysInOrder(FrameKeys(st, g))

\* A worker that saves its result itself.
WorkerStoreWrites(st, g, k, v) == SetImageData(st, g, k, v)

\* What a worker of align_frames does to the store while it computes the
\* new data of frame k: nothing, the data is returned in the result.
WorkerStore(st, g, k, v) == st

Without(q, i) == SubSeq(q, 1, i - 1) \o SubSeq(q, i + 1, Len(q))
Task(k, v) == [key |-> k, data |-> v, shift |-> <<0, 0>>]
Result(k, v, x, y) == [key |-> k, data |-> v, shift |-> <<x, y>>]

\* queue = smp.Queue(worker, totalsize, result_callback, description)
QStart(w) ==
    /\ pc \in {"pass", "final"}
    /\ q_pc = "idle"
    /\ pending # {}
    /\ q_pc' = "filling"
    /\ q_pool' = w
    /\ q_todo' = Payloads(store, Basename(active_group))
    /\ q_tasks' = <<>>
    /\ q_working' = <<>>
    /\ q_results' = <<>>
    /\ q_running' = <<>>
    /\ q_handed' = [k \in Keys |-> 0]
    /\ q_applied' = [k \in Keys |-> 0]
    /\ q_failed' = FALSE
    /\ UNCHANGED <<cache, calcVars, storeVars, alignVars, ret, ncalls, naligns>>

\* queue.put(payload) for the next frame: blocks while the pool is
\* saturated with tasks in flight.
QPut ==
    /\ q_pc = "filling"
    /\ q_todo # <<>>
    /\ q_running = <<>>
    /\ Len(q_tasks) + Len(q_working) < q_pool
    /\ LET k == Head(q_todo) IN
       q_tasks' = Append(q_tasks,
                         Task(k, ReadImage(store, Basename(active_group), k)))
    /\ q_todo' = Tail(q_todo)
    /\ UNCHANGED <<cache, calcVars, storeVars, alignVars, ret, ncalls, naligns, q_pc, q_pool,
                   q_working, q_results, q_running, q_handed, q_applied,
                   q_failed>>

\* A free worker takes the oldest waiting payload.
QTake ==
    /\ q_pc \in {"filling", "joining"}
    /\ q_tasks # <<>>
    /\ Len(q_working) < q_pool
    /\ q_working' = Append(q_working, Head(q_tasks))
    /\ q_tasks' = Tail(q_tasks)
    /\ q_handed' = [q_handed EXCEPT ![Head(q_tasks).key] = @ + 1]
    /\ UNCHANGED <<cache, calcVars, storeVars, alignVars, ret, ncalls, naligns, q_pc, q_pool,
                   q_todo, q_results, q_running, q_applied, q_failed>>

\* worker(payload) returns: the frame translated by the shift it found (in
\* a pass) or by the sum of its recorded shifts (final translation).
QWork(i, x, y) ==
    /\ q_pc \in {"filling", "joining"}
    /\ i \in 1..Len(q_working)
    /\ LET t == q_working[i]
           sx == IF pc = "pass" THEN x ELSE SumX(shifts[t.key])
           sy == IF pc = "pass" THEN y ELSE SumY(shifts[t.key])
           new_data == Apply(t.data, Op("warp", sx, sy, 0, 0))
       IN /\ pc = "final" => (x = 0 /\ y = 0)
          /\ q_results' = Append(q_results, Result(t.key, new_data, sx, sy))
          /\ store' = WorkerStore(store, Basename(active_group), t.key, new_data)
    /\ q_working' = Without(q_working, i)
    /\ UNCHANGED <<cache, calcVars, active_group, latest_group, background_groupname, alignVars,
                   ret, ncalls, naligns, q_pc, q_pool, q_todo, q_tasks,
                   q_running, q_handed, q_applied, q_failed>>

\* worker(payload) raises.
QRaise(i) ==
    /\ q_pc \in {"filling", "joining"}
    /\ i \in 1..Len(q_working)
    /\ q_working' = Without(q_working, i)
    /\ q_failed' = TRUE
    /\ UNCHANGED <<cache, calcVars, storeVars, alignVars, ret, ncalls, naligns, q_pc, q_pool,
                   q_todo, q_tasks, q_results, q_running, q_handed, q_applied>>

\* The consumer takes the next result that has arrived and enters
\* result_callback with it.
QApplyBegin ==
    /\ q_pc \in {"filling", "joining"}
    /\ q_results # <<>>
    /\ q_running = <<>>
    /\ q_running' = <<Head(q_results)>>
    /\ q_results' = Tail(q_results)
    /\ UNCHANGED <<cache, calcVars, storeVars, alignVars, ret, ncalls, naligns, q_pc, q_pool,
                   q_todo, q_tasks, q_working, q_handed, q_applied, q_failed>>

\* result_callback(payload): process_result records the shift (in a pass)
\* and the data is saved with frame.image_data = payload['data'].
QApplyEnd ==
    /\ q_running # <<>>
    /\ LET r == q_running[1] IN
       /\ store' = SetImageData(store, Basename(active_group), r.key, r.data)
       /\ IF pc = "pass"
          THEN /\ limits' = UpdateLimits(limits, r.shift[1], r.shift[2])
               /\ shifts' = RecordShift(shifts, r.key, r.shift)
          ELSE UNCHANGED <<limits, shifts>>
       /\ q_applied' = [q_applied EXCEPT ![r.key] = @ + 1]
       /\ pending' = pending \ {r.key}
    /\ q_running' = <<>>
    /\ UNCHANGED <<cache, calcVars, active_group, latest_group, background_groupname, pc,
                   new_name, passes, crop, current_pass, all_crops,
                   original_group, ret, ncalls, naligns, q_pc, q_pool, q_todo,
                   q_tasks, q_working, q_results, q_handed, q_failed>>

\* queue.join() is called once every frame has been submitted.
QJoin ==
    /\ q_pc = "filling"
    /\ q_todo = <<>>
    /\ q_running = <<>>
    /\ q_pc' = "joining"
    /\ UNCHANGED <<cache, calcVars, storeVars, alignVars, ret, ncalls, naligns, q_pool, q_todo,
                   q_tasks, q_working, q_results, q_running, q_handed,
                   q_applied, q_failed>>

\* queue.join() returns: every task is done and every result applied.
QReturn ==
    /\ q_pc = "joining"
    /\ ~q_failed
    /\ q_tasks = <<>> /\ q_working = <<>> /\ q_results = <<>> /\ q_running = <<>>
    /\ q_pc' = "returned"
    /\ UNCHANGED <<cache, calcVars, storeVars, alignVars, ret, ncalls, naligns, q_pool, q_todo,
                   q_tasks, q_working, q_results, q_running, q_handed,
                   q_applied, q_failed>>

\* The queue reports the worker's exception to the thread that runs it.
QFail ==
    /\ q_pc \in {"filling", "joining"}
    /\ q_failed
    /\ q_running = <<>>
    /\ q_pc' = "raised"
    /\ UNCHANGED <<cache, calcVars, storeVars, alignVars, ret, ncalls, naligns, q_pool, q_todo,
                   q_tasks, q_working, q_results, q_running, q_handed,
                   q_applied, q_failed>>

\* align_frames going on after a failed queue as after one that returned.
AlignSwallows ==
    /\ q_pc = "raised"
    /\ q_pc' = "returned"
    /\ pending' = {}
    /\ UNCHANGED <<cache, calcVars, storeVars, pc, new_name, passes, crop, current_pass, shifts,
                   all_crops, original_group, limits, ret, ncalls, naligns,
                   q_pool, q_todo, q_tasks, q_working, q_results, q_running,
                   q_handed, q_applied, q_failed>>

\* The exception leaves process_with_smp and align_frames, neither of
\* which catches it: the call ends where it stands.
AlignAborts ==
    /\ q_pc = "raised"
    /\ q_pc' = "idle"
    /\ pc' = "idle"
    /\ pending' = {}
    /\ ret' = Ret("align_frames", new_name, "TaskFailure")
    /\ UNCHANGED <<cache, calcVars, storeVars, new_name, passes, crop, current_pass, shifts,
                   all_crops, original_group, limits, ncalls, naligns,
                   q_pool, q_todo, q_tasks, q_working, q_results, q_running,
                   q_handed, q_applied, q_failed>>

QueueRest == <<q_pool, q_todo, q_tasks, q_working, q_results, q_running,
               q_handed, q_applied, q_failed>>

\* One align_frames run on the imported group with its frames going
\* through the queue step by step.
NextQueue ==
    \/ ncalls < 1 /\
           \E p \in 1..MaxPasses, c \in BOOLEAN :
              AlignFrames("aligned", "none", p, "cross_correlation", <<>>, c)
              /\ UNCHANGED <<queueVars, calcVars>>
    \/ \E w \in PoolSizes : QStart(w)
    \/ QPut
    \/ QTake
    \/ \E i \in 1..NumFrames, s \in SomeShifts : QWork(i, s[1], s[2])
    \/ \E i \in 1..NumFrames : QRaise(i)
    \/ QApplyBegin
    \/ QApplyEnd
    \/ QJoin
    \/ QReturn
    \/ QFail
    \/ AlignAborts
    \/ q_pc = "returned" /\ EndPass /\ q_pc' = "idle" /\ UNCHANGED <<QueueRest, calcVars>>
    \/ q_pc = "returned" /\ EndFinal /\ q_pc' = "idle" /\ UNCHANGED <<QueueRest, calcVars>>

SpecQueue == Init /\ [][NextQueue]_vars

\* The thread that runs the queue keeps running: a result callback it has
\* entered finishes, and an exception it has been handed is raised.
SpecQueueFair ==
    /\ SpecQueue
    /\ WF_vars(QApplyEnd)
    /\ WF_vars(QFail)
    /\ WF_vars(AlignAborts)

\* ---------------------------------------------------------- endtime()
\* The names switch_group accepts: the children of the frameset's group,
\* among them the group of reference frames that the import leaves there.
BackgroundName == "background_frames"
ValidGroups(st) == {<<g>> : g \in {n \in GroupNames : st[n].exists}}
                       \cup {<<BackgroundName>>}

\* switch_group(name) for a name given as the path it is made of: the
\* active group afterwards and how the call ended.  A name that is not a
\* child of the frameset's group raises before anything is assigned;
\* self.background_groupname exists only once apply_references has set it.
SwitchGroupResult(st, act, bg, name) ==
    IF name \notin ValidGroups(st)
    THEN [active |-> act, out |-> "GroupKeyError"]
    ELSE IF name = <<BackgroundName>>
    THEN IF bg = NoPath
         THEN [active |-> act, out |-> "AttributeError"]
         ELSE [active |-> bg, out |-> "ok"]
    ELSE [active |-> <<FramesetGroup>> \o name, out |-> "ok"]

\* endtime(): the end times of the frames of the active group, then those
\* of the background group, reached by switch_group('background_frames'),
\* then switch_group(old_groupname) with the active group as it was read
\* from self.active_group.
Endtime ==
    /\ Call
    /\ LET old_groupname == active_group
           r1 == SwitchGroupResult(store, active_group, background_groupname,
                                   <<BackgroundName>>)
           r2 == SwitchGroupResult(store, r1.active, background_groupname,
                                   old_groupname)
       IN IF r1.out # "ok"
          THEN /\ active_group' = r1.active
               /\ cache' = cache
               /\ ret' = Ret("endtime", "", r1.out)
          ELSE /\ active_group' = r2.active
               /\ cache' = ClearCaches(cache)
               /\ ret' = Ret("endtime", "", r2.out)
    /\ UNCHANGED <<store, latest_group, background_groupname, alignVars, naligns>>

\* endtime() called between switches, forks and apply_references.  The
\* frames of the background group are not part of the store: nothing is
\* called on the frameset while that group is the active one.
NextTime ==
    \/ ncalls < MaxCalls /\ Basename(active_group) \in GroupNames /\
           \E name \in GroupNames \cup {"missing"} :
              SwitchGroup(name) /\ UNCHANGED <<queueVars, calcVars>>
    \/ ncalls < MaxCalls /\ Basename(active_group) \in GroupNames /\
           \E name \in ForkNames : ForkGroup(name) /\ UNCHANGED <<queueVars, calcVars>>
    \/ ncalls < MaxCalls /\ Basename(active_group) \in GroupNames /\
           ApplyReferences /\ UNCHANGED <<queueVars, calcVars>>
    \/ ncalls < MaxCalls /\ Basename(active_group) \in GroupNames /\
           Endtime /\ UNCHANGED <<queueVars, calcVars>>

SpecTime == Init /\ [][NextTime]_vars

\* ------------------------------------------------------- cached methods
\* A call of one of the lru_cache methods with given arguments: the value
\* cached for these arguments if there is one, else the method's body run
\* over the frames of the active group and its value cached.  A frame
\* whose data cannot be opened raises out of the body: nothing is cached.
CallCached(m, a) ==
    /\ Call
    /\ LET c == <<m, a>>
           g == Basename(active_group)
       IN IF cache[c] # NoValue
          THEN /\ returned' = cache[c]
               /\ cache' = cache
               /\ ret' = Ret(m, Basename(cache[c].group), "ok")
          ELSE IF ~AllReadable(store, g)
          THEN /\ returned' = returned
               /\ cache' = cache
               /\ ret' = Ret(m, g, "KeyError")
          ELSE /\ returned' = Value(store, g)
               /\ cache' = [cache EXCEPT ![c] = Value(store, g)]
               /\ ret' = Ret(m, g, "ok")
    /\ UNCHANGED <<storeVars, alignVars, naligns>>

\* The cached methods called between switches, forks and frame drops.
NextCache ==
    \/ ncalls < MaxCacheCalls /\
           \E name \in GroupNames \cup {"missing"} :
              SwitchGroup(name) /\ UNCHANGED <<queueVars, calcVars>>
    \/ ncalls < MaxCacheCalls /\
           \E name \in ForkNames : ForkGroup(name) /\ UNCHANGED <<queueVars, calcVars>>
    \/ ncalls < MaxCacheCalls /\
           \E index \in 0..NumFrames : DropFrame(index) /\ UNCHANGED <<queueVars, calcVars>>
    \/ ncalls < MaxCacheCalls /\
           \E c \in CachedCalls :
              CallCached(c[1], c[2])
              /\ UNCHANGED <<queueVars, energies, imagestack, fit_fails, calc>>

SpecCache == Init /\ [][NextCache]_vars

\* The cached methods called between forks and correct_magnification,
\* which rewrites the frames of the active group through process_with_smp.
NextStale ==
    \/ ncalls < MaxCacheCalls /\
           \E name \in ForkNames : ForkGroup(name) /\ UNCHANGED <<queueVars, calcVars>>
    \/ ncalls < MaxCacheCalls /\
           CorrectMagnification /\ UNCHANGED <<queueVars, calcVars>>
    \/ ncalls < MaxCacheCalls /\
           \E c \in CachedCalls :
              CallCached(c[1], c[2])
              /\ UNCHANGED <<queueVars, energies, imagestack, fit_fails, calc>>

SpecStale == Init /\ [][NextStale]_vars

\* ------------------------------------------------- edge_jump_filter(edge)
\* The loop over the frames in key order: a frame goes to the pre-edge
\* images if its energy is in the pre-edge range, else to the post-edge
\* images if its energy is in the post-edge range, else to neither.
RECURSIVE EdgeJumpImages(_, _, _, _)
EdgeJumpImages(ks, en, pre_images, post_images) ==
    IF ks = {} THEN [op |-> "edge_jump_filter",
                     pre_images |-> pre_images, post_images |-> post_images]
    ELSE LET k == SetMin(ks) IN
         IF PreEdge[1] <= en[k] /\ en[k] <= PreEdge[2]
         THEN EdgeJumpImages(ks \ {k}, en, pre_images \cup {k}, post_images)
         ELSE IF PostEdge[1] <= en[k] /\ en[k] <= PostEdge[2]
         THEN EdgeJumpImages(ks \ {k}, en, pre_images, post_images \cup {k})
         ELSE EdgeJumpImages(ks \ {k}, en, pre_images, post_images)

\* The call, through the cache: the two populations the body averages.
EdgeJumpFilter ==
    /\ CallCached("edge_jump_filter", "edge")
    /\ calc' = IF cache[<<"edge_jump_filter", "edge">>] = NoValue /\ ret'.out = "ok"
               THEN EdgeJumpImages(FrameKeys(store, Basename(active_group)),
                                   energies, {}, {})
               ELSE calc
    /\ UNCHANGED <<energies, imagestack, fit_fails>>

\* Frame energies around the limits of the two ranges.
EnergyVals == {PreEdge[1] - 10, PreEdge[1], PreEdge[1] + 20, PreEdge[2],
              PostEdge[1] + 2, PostEdge[2], PostEdge[2] + 1, PostEdge[2] + 5}

\* One edge_jump_filter call on a frameset of frames with any of these
\* energies.
InitEdge ==
    /\ InitFrameset
    /\ energies \in [Keys -> EnergyVals]
    /\ imagestack = [e \in Energies |-> [px \in Pixels |-> 0]]
    /\ fit_fails = {}
    /\ calc = NoCalc

NextEdge == ncalls < 1 /\ EdgeJumpFilter /\ UNCHANGED queueVars

SpecEdge == InitEdge /\ [][NextEdge]_vars

\* ------------------------------------------- calculate_direct_whiteline
\* data.index: the energy of each image of the stack.
Index == [e \in Energies |-> PostEdge[2] + 50 + 2 * e]

\* The values of one pixel over the images of the stack.
Column(data, px) == [e \in Energies |-> data[e][px]]

\* An argmax that moves on to a later index of the same value.
RECURSIVE ArgMaxLast(_, _, _)
ArgMaxLast(v, i, best) ==
    IF i > Len(v) THEN best
    ELSE ArgMaxLast(v, i + 1, IF v[i] >= v[best] THEN i ELSE best)

\* np.argmax along the energy axis: the scan keeps the first index of the
\* largest value.
RECURSIVE ArgMax(_, _, _)
ArgMax(v, i, best) ==
    IF i > Len(v) THEN best
    ELSE ArgMax(v, i + 1, IF v[i] > v[best] THEN i ELSE best)

\* (whiteline_energies, goodness) for a stack of images.
DirectWhiteline(data) ==
    [op |-> "direct_whiteline",
     whitelines |-> [px \in Pixels |-> Index[ArgMax(Column(data, px), 2, 1)]],
     goodnesses |-> [px \in Pixels |-> 1]]

CalculateDirectWhiteline ==
    /\ calc.op = "none"
    /\ calc' = DirectWhiteline(imagestack)
    /\ UNCHANGED <<storeVars, alignVars, ret, ncalls, naligns, queueVars, cache,
                   returned, energies, imagestack, fit_fails>>

\* The direct whiteline of any stack of images with values up to MaxVal.
InitDirect ==
    /\ InitFrameset
    /\ energies = FrameEnergies
    /\ imagestack \in [Energies -> [Pixels -> 0..MaxVal]]
    /\ fit_fails = {}
    /\ calc = NoCalc

NextDirect == CalculateDirectWhiteline

SpecDirect == InitDirect /\ [][NextDirect]_vars

\* ----------------------------------------- calculate_gaussian_whiteline
\* Entries of the result arrays are symbolic: the zero the arrays are made
\* with, the edge's nominal energy, or the centre and the goodness of the
\* fit of a spectrum.
Zero == [kind |-> "zero", of |-> <<>>]
E_0 == [kind |-> "E_0", of |-> <<>>]
Fit(spectrum) == [center |-> [kind |-> "center", of |-> spectrum],
                  goodness |-> [kind |-> "goodness", of |-> spectrum]]

\* The stack with the energy axis moved to the end and flattened to
\* num_spectra spectra (row-major), and the reshape back to orig_shape.
NumSpectra == MapRows * MapCols
Spectra == 0..(NumSpectra - 1)
Absorbances(data) ==
    [idx \in Spectra |->
        [e \in Energies |-> data[e][<<(idx \div MapCols) + 1, (idx % MapCols) + 1>>]]]
Reshape(flat) ==
    [px \in Pixels |-> flat[(px[1] - 1) * MapCols + (px[2] - 1)]]

\* edge.fit(spectrum) raises RefinementError for the spectra of the pixels
\* in fails.
FitRaises(data, fails, spectrum) ==
    \E px \in fails : spectrum = [e \in Energies |-> data[e][px]]

\* A worker whose failed fit leaves the entry at its initial zero.
WorkerNoDefault(data, fails, idx, spectrum) ==
    IF FitRaises(data, fails, spectrum)
    THEN [idx |-> idx, center |-> Zero, goodness |-> Zero]
    ELSE [idx |-> idx, center |-> Fit(spectrum).center,
          goodness |-> Fit(spectrum).goodness]

\* worker(payload): the fit of the spectrum, or (edge.E_0, 0) when the fit
\* raises RefinementError.
Worker(data, fails, idx, spectrum) ==
    IF FitRaises(data, fails, spectrum)
    THEN [idx |-> idx, center |-> E_0, goodness |-> Zero]
    ELSE [idx |-> idx, center |-> Fit(spectrum).center,
          goodness |-> Fit(spectrum).goodness]

\* The call up to the end of the loop that fills the queue.
GaussianStart ==
    /\ calc.op = "none"
    /\ calc' = [op |-> "gaussian_whiteline", pc |-> "join",
                tasks |-> Spectra,
                whitelines |-> [idx \in Spectra |-> Zero],
                goodnesses |-> [idx \in Spectra |-> Zero]]
    /\ UNCHANGED <<storeVars, alignVars, ret, ncalls, naligns, queueVars, cache,
                   returned, energies, imagestack, fit_fails>>

\* One task goes through a worker and result_callback; the queue hands
\* the results over in any order.
GaussianResult(idx) ==
    /\ calc.op = "gaussian_whiteline"
    /\ calc.pc = "join"
    /\ idx \in calc.tasks
    /\ LET payload == Worker(imagestack, fit_fails, idx,
                             Absorbances(imagestack)[idx])
       IN calc' = [calc EXCEPT !.tasks = @ \ {idx},
                               !.whitelines[payload.idx] = payload.center,
                               !.goodnesses[payload.idx] = payload.goodness]
    /\ UNCHANGED <<storeVars, alignVars, ret, ncalls, naligns, queueVars, cache,
                   returned, energies, imagestack, fit_fails>>

\* queue.join() returns and the arrays are reshaped to the image shape.
GaussianReturn ==
    /\ calc.op = "gaussian_whiteline"
    /\ calc.pc = "join"
    /\ calc.tasks = {}
    /\ calc' = [op |-> "gaussian_whiteline", pc |-> "done", tasks |-> {},
                whitelines |-> Reshape(calc.whitelines),
                goodnesses |-> Reshape(calc.goodnesses)]
    /\ UNCHANGED <<storeVars, alignVars, ret, ncalls, naligns, queueVars, cache,
                   returned, energies, imagestack, fit_fails>>

\* A stack in which every pixel has a spectrum of its own, and any set of
\* pixels whose fit fails.
InitGaussian ==
    /\ InitFrameset
    /\ energies = FrameEnergies
    /\ imagestack = [e \in Energies |->
                        [px \in Pixels |-> 100 * e + 10 * px[1] + px[2]]]
    /\ fit_fails \in SUBSET Pixels
    /\ calc = NoCalc

NextGaussian ==
    \/ GaussianStart
    \/ \E idx \in Spectra : GaussianResult(idx)
    \/ GaussianReturn

SpecGaussian == InitGaussian /\ [][NextGaussian]_vars

\* The workers of the queue and the thread that joins it keep running.
SpecGaussianFair ==
    /\ SpecGaussian
    /\ WF_vars(\E idx \in Spectra : GaussianResult(idx))
    /\ WF_vars(GaussianReturn)

\* ------------------------------------------------- energies(), __iter__
\* energy_key.format(E) for a whole number of eV, as character codes:
\* the decimal digits of E, then ".00_eV".
RECURSIVE Digits(_)
Digits(n) == IF n < 10 THEN <<48 + n>> ELSE Append(Digits(n \div 10), 48 + (n % 10))
EnergyKey(E) == Digits(E) \o <<46, 48, 48, 95, 101, 86>>

\* The order of names in an HDF5 group: byte by byte, a proper prefix
\* first.
RECURSIVE NameBefore(_, _)
NameBefore(a, b) ==
    IF b = <<>> THEN FALSE
    ELSE IF a = <<>> THEN TRUE
    ELSE IF Head(a) # Head(b) THEN Head(a) < Head(b)
    ELSE NameBefore(Tail(a), Tail(b))

\* `for key in f[self.active_group]`: the energies of the frame groups in
\* the order of their names.
RECURSIVE GroupOrder(_)
GroupOrder(S) ==
    IF S = {} THEN <<>>
    ELSE LET first == CHOOSE E \in S :
                         \A F \in S \ {E} : NameBefore(EnergyKey(E), EnergyKey(F))
         IN <<first>> \o GroupOrder(S \ {first})

\* energies(), which is also the order in which __iter__ yields the frames
\* and in which xanes_spectrum builds its index.
ListEnergies ==
    /\ calc.op = "none"
    /\ calc' = [op |-> "energies",
                list |-> GroupOrder({energies[k] : k \in Keys})]
    /\ UNCHANGED <<storeVars, alignVars, ret, ncalls, naligns, queueVars, cache,
                   returned, energies, imagestack, fit_fails>>

\* Frame energies, in eV, with one to five integer digits.
KeyEnergyVals == {7, 10, 99, 100, 998, 1000, 8250, 10000}

\* A group of frames with distinct energies.
InitEnergies ==
    /\ InitFrameset
    /\ energies \in {en \in [Keys -> KeyEnergyVals] :
                         \A j, k \in Keys : j # k => en[j] # en[k]}
    /\ imagestack = [e \in Energies |-> [px \in Pixels |-> 0]]
    /\ fit_fails = {}
    /\ calc = NoCalc

NextEnergies == ListEnergies

SpecEnergies == InitEnergies /\ [][NextEnergies]_vars

\* ------------------------------------ align_frames: what is registered
\* The reference image of a pass: the mean or median image of the frames,
\* or the image of an indexed frame ("max" has been replaced by the index
\* of the frame of highest intensity), median-filtered only in the last
\* case and only if blur is "median".
ReferenceFrames == {"mean", "median", "max", "index"}
ReferenceImage(reference_frame, blur) ==
    IF reference_frame = "mean" THEN [of |-> "mean_image", filtered |-> FALSE]
    ELSE IF reference_frame = "median" THEN [of |-> "median_image", filtered |-> FALSE]
    ELSE [of |-> "frame", filtered |-> (blur = "median")]

\* The frame data the worker registers: blurred_data for cross
\* correlation, scaled_data, which is the data as it is, for template
\* matching.
RegisteredData(current_method, blur) ==
    IF current_method = "cross_correlation"
    THEN [of |-> "data", filtered |-> (blur = "median")]
    ELSE [of |-> "data", filtered |-> FALSE]

\* One pass of a run: the reference image and the frame data that go into
\* its registration.
RegisterPass ==
    /\ calc.op = "align_frames"
    /\ Len(calc.used) < Len(calc.methods)
    /\ LET current_method == calc.methods[Len(calc.used) + 1] IN
       calc' = [calc EXCEPT !.used = Append(@,
                   [method |-> current_method,
                    reference_image |-> ReferenceImage(calc.reference_frame, calc.blur),
                    data |-> RegisteredData(current_method, calc.blur)])]
    /\ UNCHANGED <<storeVars, alignVars, ret, ncalls, naligns, queueVars, cache,
                   returned, energies, imagestack, fit_fails>>

\* A run with any valid blur, reference and method for each of its passes.
InitRegister ==
    /\ InitFrameset
    /\ energies = FrameEnergies
    /\ imagestack = [e \in Energies |-> [px \in Pixels |-> 0]]
    /\ fit_fails = {}
    /\ calc \in {[op |-> "align_frames", blur |-> b, reference_frame |-> r,
                   methods |-> ms, used |-> <<>>] :
                     b \in ValidFilters, r \in ReferenceFrames,
                     ms \in UNION {[1..n -> ValidMethods] : n \in 1..MaxPasses}}

NextRegister == RegisterPass

SpecRegister == InitRegister /\ [][NextRegister]_vars

\* ---------------------------------------------- calculate_map(new_name)
\* Datasets of maps in the file: the map under a name and its goodness
\* under that name followed by "_goodness".  A dataset holds 0 when it
\* does not exist, 1 when it was there before the first call, and the
\* number of the call plus 1 when a call created it.
MapNames == {"map", "whiteline", "particles"}
MapDataset(name) == <<name>>
GoodnessDataset(name) == <<name, "_goodness">>
MapDatasets == {MapDataset(n) : n \in MapNames} \cup {GoodnessDataset(n) : n \in MapNames}

\* The block that deletes the old datasets: both del statements are in
\* one try, so a KeyError of the first skips the second.  map_key and
\* goodness_key are calculate_map's new_name and goodness_name.
DeleteOld(ds, map_key, goodness_key) ==
    IF ds[map_key] = 0 THEN ds
    ELSE IF ds[goodness_key] = 0 THEN [ds EXCEPT ![map_key] = 0]
    ELSE [ds EXCEPT ![map_key] = 0, ![goodness_key] = 0]

\* calculate_map: the maps are computed, the old datasets deleted, the new
\* ones created (create_dataset raises when the name is taken), and the
\* names recorded in map_name and map_goodness_name.
CalculateMap(name) ==
    /\ calc.op = "calculate_map"
    /\ calc.n < MaxMapCalls
    /\ LET map_key == MapDataset(name)
           goodness_key == GoodnessDataset(name)
           ds1 == DeleteOld(calc.datasets, map_key, goodness_key)
           ds2 == [ds1 EXCEPT ![map_key] = calc.n + 2]
       IN IF ds1[goodness_key] # 0
          THEN calc' = [calc EXCEPT !.n = @ + 1, !.datasets = ds2,
                                    !.out = "NameExists"]
          ELSE calc' = [calc EXCEPT !.n = @ + 1,
                                    !.datasets = [ds2 EXCEPT ![goodness_key] = calc.n + 2],
                                    !.map_name = map_key,
                                    !.map_goodness_name = goodness_key,
                                    !.out = "ok"]
    /\ UNCHANGED <<storeVars, alignVars, ret, ncalls, naligns, queueVars, cache,
                   returned, energies, imagestack, fit_fails>>

\* A file in which any of the datasets may already be there.
InitMap ==
    /\ InitFrameset
    /\ energies = FrameEnergies
    /\ imagestack = [e \in Energies |-> [px \in Pixels |-> 0]]
    /\ fit_fails = {}
    /\ calc \in {[op |-> "calculate_map", n |-> 0, datasets |-> ds,
                   map_name |-> <<>>, map_goodness_name |-> <<>>, out |-> "none"] :
                     ds \in [MapDatasets -> {0, 1}]}

NextMap == \E name \in MapNames : CalculateMap(name)

SpecMap == InitMap /\ [][NextMap]_vars

\* ======================================================================
\* Properties
\* ======================================================================
IsCall(op) == ncalls' = ncalls + 1 /\ ret'.op = op

RECURSIVE ForkedFrom(_, _, _, _)
\* g descends from a through parent attributes.
ForkedFrom(st, g, a, fuel) ==
    /\ fuel > 0
    /\ g \in GroupNames
    /\ st[g].exists
    /\ \/ st[g].parent = Path(a)
       \/ ForkedFrom(st, Basename(st[g].parent), a, fuel - 1)

SameFrame(g, k) ==
    /\ store'[g].frames[k].exists
    /\ Readable(store', g, k)
    /\ ReadImage(store', g, k) = ReadImage(store, g, k)

\* C1: fork isolation in both directions.  A call that writes frame image
\* data while a fork B is active (apply_references, after its fork) leaves
\* the frames of B's parent A reading as before, and a call that writes
\* while A is active (correct_magnification) leaves the frames of the
\* groups forked from A reading as before.
C1_ForkIsolation ==
    [][(IsCall("apply_references") \/ IsCall("correct_magnification")) =>
          LET b == Basename(active_group')
              a == Basename(store'[b].parent)
          IN /\ \A k \in Keys :
                   (/\ a \in GroupNames
                    /\ store[a].frames[k].exists
                    /\ Readable(store, a, k))
                   => SameFrame(a, k)
             /\ IsCall("correct_magnification") =>
                   \A g \in GroupNames, k \in Keys :
                      (/\ store[g].exists
                       /\ store[g].parent = active_group
                       /\ store[g].frames[k].exists
                       /\ Readable(store, g, k))
                      => SameFrame(g, k)]_vars

\* C2: fork_group(name) onto an existing group.  With another parent the
\* call fails with a GroupKeyError and changes nothing; with the active
\* group as parent the old group gives way to a fresh fork of the active
\* group: its frame keys, none of them holding data of its own.
C2_ForkExisting ==
    [][(IsCall("fork_group") /\ store[ret'.name].exists) =>
          LET n == ret'.name
              old == Basename(active_group)
          IN IF store[n].parent # active_group
             THEN /\ ret'.out = "GroupKeyError"
                  /\ UNCHANGED <<store, active_group, latest_group>>
             ELSE /\ ret'.out # "GroupKeyError"
                  /\ store'[n].exists
                  /\ store'[n].parent = active_group
                  /\ FrameKeys(store', n) = FrameKeys(store, old)
                  /\ \A k \in FrameKeys(store', n) :
                        /\ store'[n].frames[k].ds.kind # "data"
                        /\ store'[n].frames[k].cow]_vars

C2_Witness ==
    /\ ret.op = "fork_group"
    /\ ret.out = "GroupKeyError"
    /\ store[ret.name].exists
    /\ store[ret.name].parent # active_group

\* C3: right after a successful fork_group(name) the new group has the
\* frame keys of the group that was active, each reading as it did there,
\* its parent attribute is that group's path, and it is the active group
\* and latest_group.
C3_ForkSnapshot ==
    [][(IsCall("fork_group") /\ ret'.out = "ok") =>
          LET n == ret'.name
              old == Basename(active_group)
          IN /\ FrameKeys(store', n) = FrameKeys(store, old)
             /\ \A k \in FrameKeys(store, old) :
                   /\ Readable(store', n, k) = Readable(store, old, k)
                   /\ ReadImage(store', n, k) = ReadImage(store, old, k)
             /\ store'[n].parent = active_group
             /\ active_group' = Path(n)
             /\ latest_group' = Path(n)]_vars

C3_Witness ==
    /\ ret.op = "fork_group"
    /\ ret.out = "ok"
    /\ active_group = Path(ret.name)
    /\ store[ret.name].parent # Path(RootName)
    /\ \E k \in Keys : Readable(store, ret.name, k)
                       /\ ReadImage(store, ret.name, k).ops # <<>>

C5_DropFrameOnly ==
    [][(IsCall("drop_frame") /\ ret'.out = "ok") =>
          LET a == Basename(active_group) IN
          /\ \E kd \in FrameKeys(store, a) :
                FrameKeys(store', a) = FrameKeys(store, a) \ {kd}
          /\ \A k \in FrameKeys(store', a) :
                Readable(store, a, k) => SameFrame(a, k)
          /\ \A g \in GroupNames, k \in Keys :
                (/\ ForkedFrom(store, g, a, Cardinality(GroupNames))
                 /\ store[g].frames[k].exists
                 /\ Readable(store, g, k))
                => SameFrame(g, k)]_vars

\* What align_frames rejects: the blur, the methods requested for the
\* passes (the list, or `method` for each pass when the list is empty),
\* and the length of the list.
BadParameters(blur, p, method, methods) ==
    \/ blur \notin {"median", "none"}
    \/ methods = <<>> /\ p >= 1
                      /\ method \notin {"cross_correlation", "template_match"}
    \/ \E i \in 1..Len(methods) :
          methods[i] \notin {"cross_correlation", "template_match"}
    \/ methods # <<>> /\ Len(methods) # p

SourceGroup ==
    IF pc = "idle" THEN Basename(active_group) ELSE Basename(original_group)

\* C7: no step of align_frames, from the call to its return or to the
\* failure of a task, changes the source group: its frame set, its frames'
\* attributes and members, and what its frames read as.
C7_SourceUnchanged ==
    [][(IsCall("align_frames") \/ pc # "idle") =>
          /\ store'[SourceGroup] = store[SourceGroup]
          /\ \A k \in Keys :
                /\ Readable(store', SourceGroup, k)
                      = Readable(store, SourceGroup, k)
                /\ ReadImage(store', SourceGroup, k)
                      = ReadImage(store, SourceGroup, k)]_vars

\* A two-pass run with cropping that moved a frame has returned.
C7_Witness ==
    /\ ret.op = "align_frames"
    /\ ret.out = "ok"
    /\ passes = 2
    /\ crop
    /\ \E k \in Keys : \E i \in 1..Len(shifts[k]) : shifts[k][i] # <<0, 0>>

\* C8: when align_frames(new_name, ...) has returned normally after one
\* pass or more, the active group is new_name and it holds the frame keys
\* of the source group.
C8_ActiveGroupAndKeys ==
    (ret.op = "align_frames" /\ ret.out = "ok" /\ passes >= 1) =>
        /\ active_group = Path(new_name)
        /\ store[new_name].exists
        /\ FrameKeys(store, new_name)
              = FrameKeys(store, Basename(original_group))

\* A run started from a fork of the root group has returned.
C8_Witness ==
    /\ ret.op = "align_frames"
    /\ ret.out = "ok"
    /\ passes >= 1
    /\ original_group = Path("normalized")
    /\ FrameKeys(store, new_name) = Keys

\* C9: once align_frames has returned, and after the crop of each pass,
\* the frames of the new group all have the same shape.
C9_UniformShape ==
    (\/ ret.op = "align_frames" /\ ret.out = "ok"
     \/ pc = "pass" /\ pending = FrameKeys(store, new_name)) =>
        /\ AllReadable(store, new_name)
        /\ Cardinality(Shapes(store, new_name)) <= 1

\* A one-pass run has returned with its frames cropped.
C9_Witness ==
    /\ ret.op = "align_frames"
    /\ ret.out = "ok"
    /\ passes = 1
    /\ crop
    /\ \A k \in Keys :
          /\ store[new_name].frames[k].exists
          /\ ReadImage(store, new_name, k).shape # <<Rows, Cols>>

RECURSIVE Total(_, _, _)
\* Component i of the first n shifts of ss, added up.
Total(ss, i, n) == IF n = 0 THEN 0 ELSE ss[n][i] + Total(ss, i, n - 1)

\* C10: after a run of more than one pass, each frame of the new group is
\* the source group's frame with one warp applied, by the sum of the
\* frame's per-pass shifts, followed by nothing but the final crop.
C10_WarpedOnceBySum ==
    (ret.op = "align_frames" /\ ret.out = "ok" /\ passes > 1) =>
        \A k \in FrameKeys(store, new_name) :
            LET from == ReadImage(store, Basename(original_group), k)
                img == ReadImage(store, new_name, k)
                n == Len(from.ops)
            IN /\ Len(shifts[k]) = passes
               /\ img.src = from.src
               /\ Len(img.ops) = n + 1 + (IF crop THEN 1 ELSE 0)
               /\ SubSeq(img.ops, 1, n) = from.ops
               /\ img.ops[n + 1] = Op("warp", Total(shifts[k], 1, passes),
                                      Total(shifts[k], 2, passes), 0, 0)
               /\ \A i \in (n + 2)..Len(img.ops) : img.ops[i].op = "crop"

\* A frame moved in both passes of a two-pass run.
C10_Witness ==
    /\ ret.op = "align_frames"
    /\ ret.out = "ok"
    /\ passes > 1
    /\ \E k \in FrameKeys(store, new_name) :
          /\ Len(shifts[k]) = 2
          /\ shifts[k][1] # <<0, 0>>
          /\ shifts[k][2] # <<0, 0>>

\* C11: when align_frames has returned normally after one pass or more,
\* every frame of the new group has sample position (0, 0, z), z being the
\* z of the frame in the source group.
C11_PositionsReset ==
    (ret.op = "align_frames" /\ ret.out = "ok" /\ passes >= 1) =>
        \A k \in FrameKeys(store, new_name) :
            store[new_name].frames[k].pos =
                Position(0, 0, store[Basename(original_group)].frames[k].pos[3])

\* The part of the source image left after the crop of pass k, in the
\* source image's pixel coordinates: the box of pass k moved by the bottom
\* and left offsets of the passes before it.
RECURSIVE Offset(_, _, _)
Offset(cs, side, k) ==
    IF k = 0 THEN 0
    ELSE (IF side = "bottom" THEN cs[k].bottom ELSE cs[k].left)
         + Offset(cs, side, k - 1)
BoxAfter(cs, k) ==
    Crop(Offset(cs, "bottom", k - 1) + cs[k].top,
         Offset(cs, "bottom", k - 1) + cs[k].bottom,
         Offset(cs, "left", k - 1) + cs[k].left,
         Offset(cs, "left", k - 1) + cs[k].right)
Contained(a, b) ==
    /\ a.left >= b.left
    /\ a.bottom >= b.bottom
    /\ a.right <= b.right
    /\ a.top <= b.top

C13_EachFrameOnce ==
    q_pc = "returned" =>
        LET ks == FrameKeys(store, Basename(active_group)) IN
        /\ \A k \in Keys :
              /\ q_handed[k] = (IF k \in ks THEN 1 ELSE 0)
              /\ q_applied[k] = (IF k \in ks THEN 1 ELSE 0)
        /\ q_todo = <<>> /\ q_tasks = <<>> /\ q_working = <<>>
        /\ q_results = <<>> /\ q_running = <<>>

\* A pool of 8 workers has returned with every frame of the group applied.
C13_Witness ==
    /\ q_pc = "returned"
    /\ q_pool = 8
    /\ \A k \in Keys : q_applied[k] = 1

\* C14: while the queue runs, at most one result callback runs at a time,
\* and a step that changes the store, the crop limits or the shift
\* history is the step of the running result callback; a worker changes
\* none of them.
C14_SingleWriter ==
    [][/\ Len(q_running') <= 1
       /\ (/\ q_pc \in {"filling", "joining"}
           /\ <<store, limits, shifts>>' # <<store, limits, shifts>>)
          => (q_running # <<>> /\ q_running' = <<>>)]_vars

\* A result is being applied while a worker holds another frame.
C14_Witness ==
    /\ q_running # <<>>
    /\ q_working # <<>>
    /\ pc = "pass"

\* C15: once a worker has raised, the run performs no crop and no later
\* pass and does not return normally, the store changes only by a result
\* callback that finishes (what was applied stays), and the call ends
\* with the failure reported to the caller.
C15_FailureReported ==
    /\ [][(q_failed /\ pc \in {"pass", "final"}) =>
             /\ all_crops' = all_crops
             /\ current_pass' = current_pass
             /\ pc' \in {pc, "idle"}
             /\ q_pc' # "returned"
             /\ ret'.out \in {"running", "TaskFailure"}
             /\ (store' # store => (q_running # <<>> /\ q_running' = <<>>))
             /\ \A k \in Keys :
                   (q_applied[k] > 0 /\ (q_running = <<>> \/ q_running[1].key # k))
                   => store'[new_name].frames[k] = store[new_name].frames[k]]_vars
    /\ (q_failed /\ pc \in {"pass", "final"}) ~> (ret.out = "TaskFailure")

\* A run has failed in its second pass with a result of that pass applied.
C15_Witness ==
    /\ ret.op = "align_frames"
    /\ ret.out = "TaskFailure"
    /\ current_pass = 1
    /\ \E k \in Keys : q_applied[k] = 1

\* C16: an align_frames call that follows a failed run, with the same
\* new_name, is accepted by fork_group and starts from the source group of
\* the failed run: the frames of the new fork read as those of that group.
C16_RetryAccepted ==
    [][(/\ ret.op = "align_frames"
        /\ ret.out = "TaskFailure"
        /\ IsCall("align_frames")
        /\ ret'.name = ret.name) =>
          /\ ret'.out = "running"
          /\ original_group' = original_group
          /\ \A k \in FrameKeys(store, Basename(original_group)) :
                /\ store'[ret.name].frames[k].exists
                /\ ReadImage(store', ret.name, k)
                      = ReadImage(store, Basename(original_group), k)]_vars

\* C17: edge_jump_filter puts a frame among the pre-edge images exactly
\* when its energy lies in the inclusive pre-edge range, and among the
\* post-edge images exactly when its energy lies in the inclusive post-edge
\* range, each range tested on its own; a frame in neither range is in
\* neither population.
C17_InclusiveRanges ==
    calc.op = "edge_jump_filter" =>
        \A k \in FrameKeys(store, Basename(active_group)) :
            /\ k \in calc.pre_images <=>
                   (PreEdge[1] <= energies[k] /\ energies[k] <= PreEdge[2])
            /\ k \in calc.post_images <=>
                   (PostEdge[1] <= energies[k] /\ energies[k] <= PostEdge[2])

\* C18: calculate_direct_whiteline returns, for every pixel, the energy of
\* the image in which that pixel's value is largest, the first such energy
\* when several images share the largest value, and a goodness of 1 for
\* every pixel; both arrays have the shape of one image.
C18_DirectWhiteline ==
    calc.op = "direct_whiteline" =>
        /\ DOMAIN calc.whitelines = Pixels
        /\ DOMAIN calc.goodnesses = Pixels
        /\ \A px \in Pixels :
              /\ calc.goodnesses[px] = 1
              /\ \E e \in Energies :
                    /\ calc.whitelines[px] = Index[e]
                    /\ \A e2 \in Energies : imagestack[e2][px] <= imagestack[e][px]
                    /\ \A e2 \in Energies :
                          e2 < e => imagestack[e2][px] < imagestack[e][px]

\* A whiteline computed for a pixel whose largest value is shared by two
\* images, neither of them the first.
C18_Witness ==
    /\ calc.op = "direct_whiteline"
    /\ \E px \in Pixels :
          /\ imagestack[1][px] < imagestack[2][px]
          /\ imagestack[2][px] = imagestack[3][px]
          /\ calc.whitelines[px] = Index[2]

\* C19: calculate_gaussian_whiteline returns an energy map and a goodness
\* map of the image shape in which each pixel's entry is the result of the
\* fit of that pixel's spectrum; a pixel whose fit fails gets (edge.E_0, 0)
\* and no other pixel's entry changes for it; and a call that has started
\* completes, with every pixel filled.
C19_GaussianWhiteline ==
    /\ []((calc.op = "gaussian_whiteline" /\ calc.pc = "done") =>
            /\ DOMAIN calc.whitelines = Pixels
            /\ DOMAIN calc.goodnesses = Pixels
            /\ \A px \in Pixels :
                  LET spectrum == [e \in Energies |-> imagestack[e][px]] IN
                  IF px \in fit_fails
                  THEN /\ calc.whitelines[px] = E_0
                       /\ calc.goodnesses[px] = Zero
                  ELSE /\ calc.whitelines[px] = Fit(spectrum).center
                       /\ calc.goodnesses[px] = Fit(spectrum).goodness)
    /\ (calc.op = "gaussian_whiteline") ~> (calc.op = "gaussian_whiteline" /\ calc.pc = "done")

\* A finished map with a failed fit in the first row and a converged one
\* after it in the second.
C19_Witness ==
    /\ calc.op = "gaussian_whiteline"
    /\ calc.pc = "done"
    /\ <<1, 2>> \in fit_fails
    /\ <<2, 1>> \notin fit_fails
    /\ calc.whitelines[<<1, 2>>] = E_0
    /\ calc.whitelines[<<2, 1>>] # E_0

\* C20: every value held in the caches was computed against the active
\* group; a call of xanes_spectrum, image_normalizer or edge_jump_filter
\* returns a value computed against the active group; and the first such
\* call after a switch_group or fork_group that succeeded returns the value
\* of the method's body over the frames of the new active group.
C20_CachesFollowGroup ==
    /\ [](\A c \in CachedCalls :
             cache[c] # NoValue => cache[c].group = active_group)
    /\ [][(\E m \in CachedMethods : IsCall(m)) /\ ret'.out = "ok" =>
             /\ returned'.group = active_group
             /\ (ret.op \in {"switch_group", "fork_group"} /\ ret.out = "ok") =>
                    returned' = Value(store, Basename(active_group))]_vars

\* A fork has just succeeded away from the group for which a cached
\* method had returned, and so cached, a value: the caches are empty.
C20_Witness ==
    /\ ret.op = "fork_group"
    /\ ret.out = "ok"
    /\ returned # NoValue
    /\ returned.group # active_group
    /\ cache = NoCache

\* C21: energies(), and with it the iteration of the frameset and the
\* index of xanes_spectrum, lists every frame of the group once, in
\* strictly ascending order of energy, whatever the distinct energies of
\* the frames are.
C21_AscendingEnergies ==
    calc.op = "energies" =>
        /\ Len(calc.list) = NumFrames
        /\ {calc.list[i] : i \in 1..Len(calc.list)} = {energies[k] : k \in Keys}
        /\ \A i \in 1..(Len(calc.list) - 1) : calc.list[i] < calc.list[i + 1]

\* C22: within an align_frames run every frame key of the group has one
\* shift per completed pass, and one more once its result of the running
\* pass is applied; when all results of a pass are in, the pass's limits
\* cover the latest shift of every frame; and the final translation and
\* the finished run see exactly `passes` shifts for every frame key.
C22_ShiftHistory ==
    LET ks == FrameKeys(store, Basename(active_group)) IN
    /\ pc = "pass" =>
          \A k \in ks :
              /\ Len(shifts[k]) = current_pass + (IF k \in pending THEN 0 ELSE 1)
              /\ k \notin pending =>
                    LET s == shifts[k][Len(shifts[k])] IN
                    /\ limits.left <= s[1] /\ s[1] <= limits.right
                    /\ limits.top <= s[2] /\ s[2] <= limits.bottom
    /\ (pc = "final" \/ (pc = "idle" /\ ret.op = "align_frames" /\ ret.out = "ok")) =>
          \A k \in ks : Len(shifts[k]) = passes

\* The last pass of a two-pass run over all frames has all its results.
C22_Witness ==
    /\ pc = "pass"
    /\ current_pass = 1
    /\ pending = {}
    /\ FrameKeys(store, Basename(active_group)) = Keys
    /\ \A k \in Keys : Len(shifts[k]) = 2
    /\ \E k \in Keys : shifts[k][2] # <<0, 0>>

\* 0 and component i of the latest shift of every frame.
Latest(i) ==
    {0} \cup {shifts[k][Len(shifts[k])][i] :
                 k \in FrameKeys(store, Basename(active_group))}

\* C23: once all results of a pass have been applied, in whatever order
\* they arrived, the limits are the minimum and maximum, over 0 and the
\* pass's shift of every frame, of the x components (left, right) and of
\* the y components (top, bottom), and every frame's history ends with
\* one shift of this pass.
C23_OrderIndependent ==
    (pc = "pass" /\ pending = {}) =>
        /\ \A k \in FrameKeys(store, Basename(active_group)) :
              Len(shifts[k]) = current_pass + 1
        /\ limits.left \in Latest(1) /\ \A v \in Latest(1) : limits.left <= v
        /\ limits.right \in Latest(1) /\ \A v \in Latest(1) : v <= limits.right
        /\ limits.top \in Latest(2) /\ \A v \in Latest(2) : limits.top <= v
        /\ limits.bottom \in Latest(2) /\ \A v \in Latest(2) : v <= limits.bottom

\* A pass has ended in which one frame moved right and up, and another
\* did not move at all or moved the other way.
C23_Witness ==
    /\ pc = "pass"
    /\ pending = {}
    /\ FrameKeys(store, Basename(active_group)) = Keys
    /\ limits.right = MaxShift
    /\ limits.bottom = MaxShift
    /\ \E j, k \in Keys :
          /\ shifts[j][Len(shifts[j])] = <<MaxShift, MaxShift>>
          /\ shifts[k][Len(shifts[k])][1] <= 0
          /\ shifts[k][Len(shifts[k])][2] <= 0

\* The box of the crop a frame's image went through last.
LastCropOf(v) ==
    LET o == v.ops[Len(v.ops)] IN Crop(o.p[3], o.p[1], o.p[2], o.p[4])

\* C24: after a run with crop on and more than one pass, the box every
\* frame was finally cropped to has, in source coordinates, the sum of the
\* passes' left offsets as its left, the sum of their bottom offsets as its
\* bottom, and the width and height of the last pass's box; it is the
\* region the passes' crops leave when applied one after another, and the
\* frames have that size.
C24_FinalCrop ==
    (pc = "idle" /\ ret.op = "align_frames" /\ ret.out = "ok" /\ crop /\ passes > 1) =>
        \A k \in FrameKeys(store, new_name) :
            LET v == ReadImage(store, new_name, k)
                box == LastCropOf(v)
                last == all_crops[passes]
            IN /\ v.ops[Len(v.ops)].op = "crop"
               /\ box.left = Offset(all_crops, "left", passes)
               /\ box.bottom = Offset(all_crops, "bottom", passes)
               /\ box.right - box.left = last.right - last.left
               /\ box.top - box.bottom = last.top - last.bottom
               /\ box = BoxAfter(all_crops, passes)
               /\ v.shape = <<last.top - last.bottom, last.right - last.left>>

\* A finished run of two passes that each cut the left and the bottom.
C24_Witness ==
    /\ pc = "idle" /\ ret.op = "align_frames" /\ ret.out = "ok"
    /\ crop /\ passes = 2
    /\ all_crops[1].left > 0 /\ all_crops[2].left > 0
    /\ all_crops[1].bottom > 0 /\ all_crops[2].bottom > 0
    /\ \A k \in Keys : LastCropOf(ReadImage(store, new_name, k)).left = 2

\* The part of an image that holds no wrapped-around data, in half pixels:
\* a translation by (x, y) makes pixel (c, r) of the result read the input
\* at (c + x, r + y), wrapping at the edges, and a crop keeps what its box
\* holds.  The region starts as the whole imported image.
Min2(a, b) == IF a < b THEN a ELSE b
Max2(a, b) == IF a > b THEN a ELSE b
RECURSIVE Unwrapped(_, _, _)
Unwrapped(ops, i, reg) ==
    IF i > Len(ops) THEN reg
    ELSE LET o == ops[i] IN
         IF o.op = "warp"
         THEN Unwrapped(ops, i + 1,
                  [reg EXCEPT !.x0 = Max2(reg.x0 - o.p[1], 0),
                              !.x1 = Min2(reg.x1 - o.p[1], 2 * reg.cols),
                              !.y0 = Max2(reg.y0 - o.p[2], 0),
                              !.y1 = Min2(reg.y1 - o.p[2], 2 * reg.rows)])
         ELSE IF o.op = "crop"
         THEN Unwrapped(ops, i + 1,
                  [x0 |-> Max2(reg.x0, 2 * o.p[2]) - 2 * o.p[2],
                   x1 |-> Min2(reg.x1, 2 * o.p[4]) - 2 * o.p[2],
                   y0 |-> Max2(reg.y0, 2 * o.p[1]) - 2 * o.p[1],
                   y1 |-> Min2(reg.y1, 2 * o.p[3]) - 2 * o.p[1],
                   rows |-> o.p[3] - o.p[1], cols |-> o.p[4] - o.p[2]])
         ELSE Unwrapped(ops, i + 1, reg)
NoWrapKept(v) ==
    LET reg == Unwrapped(v.ops, 1, [x0 |-> 0, x1 |-> 2 * Cols, y0 |-> 0,
                                    y1 |-> 2 * Rows, rows |-> Rows, cols |-> Cols])
    IN /\ reg.x0 = 0 /\ reg.x1 = 2 * reg.cols
       /\ reg.y0 = 0 /\ reg.y1 = 2 * reg.rows

C26_BlurredRegistration ==
    (calc.op = "align_frames" /\ calc.blur = "median") =>
        \A i \in 1..Len(calc.used) :
            /\ calc.used[i].reference_image.filtered
            /\ calc.used[i].data.filtered

\* The shape of the frames pass i registered and cropped.
ShapeBefore(i) ==
    IF i = 1 THEN OriginalShape(store, Basename(original_group))
    ELSE <<all_crops[i - 1].top - all_crops[i - 1].bottom,
           all_crops[i - 1].right - all_crops[i - 1].left>>

\* C27: with crop on, the box of every pass is non-empty and inside the
\* image the pass worked on, for shifts of up to half the image in either
\* direction: 0 <= left < right <= columns and 0 <= bottom < top <= rows.
C27_CropNonEmpty ==
    crop =>
        \A i \in 1..Len(all_crops) :
            LET box == all_crops[i] IN
            /\ 0 <= box.left /\ box.left < box.right
            /\ box.right <= ShapeBefore(i)[2]
            /\ 0 <= box.bottom /\ box.bottom < box.top
            /\ box.top <= ShapeBefore(i)[1]

\* C28: endtime(), called on a frameset whose background group is known,
\* returns and leaves the active group what it was before the call,
\* whatever group fork_group or switch_group had made the active one.
C28_EndtimeRestores ==
    [][(IsCall("endtime") /\ background_groupname # NoPath) =>
          (ret'.out = "ok" /\ active_group' = active_group)]_vars

\* C29: every value a call of xanes_spectrum, edge_jump_filter or
\* image_normalizer returns is the value of the method's body over the
\* frame data the active group holds when the call is made, also when
\* that data has been rewritten since an earlier call.
C29_CachedValuesFresh ==
    [][((\E m \in CachedMethods : IsCall(m)) /\ ret'.out = "ok") =>
          returned' = Value(store, Basename(active_group))]_vars

\* C30: every call of calculate_map succeeds, whichever of the two
\* datasets were there before it, and leaves the map and the goodness
\* dataset under the chosen names holding the results of this call, with
\* map_name and map_goodness_name naming them.
C30_MapRepeatable ==
    [][(calc.op = "calculate_map" /\ calc'.n = calc.n + 1) =>
          /\ calc'.out = "ok"
          /\ calc'.datasets[calc'.map_name] = calc.n + 2
          /\ calc'.datasets[calc'.map_goodness_name] = calc.n + 2
          /\ Len(calc'.map_name) = 1
          /\ calc'.map_goodness_name = GoodnessDataset(calc'.map_name[1])]_vars

====
